---- MODULE Spec2Model ----
(***************************************************************************)
(* A model of concarne's contextual patterns (concarne/patterns/base.py    *)
(* and concarne/patterns/pairwise.py): construction of a pattern over a    *)
(* pool of lasagne layers, role tagging of the layers' parameters, lazy    *)
(* construction of the target and context losses, get_params and           *)
(* training_loss.                                                          *)
(*                                                                         *)
(* Python objects are modelled by value: a Theano variable is a string, a  *)
(* Theano expression or a callable is a record with a field "op", and the  *)
(* outcome of a call is a record [exc, val].  Integer weights stand for    *)
(* the numeric weights of training_loss.                                   *)
(***************************************************************************)
EXTENDS Integers, Sequences, FiniteSets, TLC

VARIABLES
    tags,      \* tags[l][p]: the tag set lasagne keeps in l.params[p]
    pattern,   \* the pattern object most recently under construction
    call,      \* the most recent call: [op, args]
    ret,       \* its outcome: [exc, val]
    invoked    \* the loss callables invoked since that pattern's construction began

vars == <<tags, pattern, call, ret, invoked>>

-----------------------------------------------------------------------------
(* Bounds *)

\* training_loss is called with weights 0..MaxWeight
MaxWeight == 2

\* a loss expression evaluates to 1..MaxLossVal
MaxLossVal == 2

-----------------------------------------------------------------------------
(* Python values *)

\* None, where a Theano variable or a layer is expected
None == "None"

\* None, where an expression or a callable is expected
NoneE == [op |-> "None"]

\* an attribute the object does not have
Absent == "<absent>"

VarE(v) == [op |-> "var", name |-> v]

\* a ready Theano expression supplied by the caller
GivenE(id) == [op |-> "given", id |-> id]

\* a callable objective
FnE(name) == [op |-> "fn", name |-> name]

\* fn(output, target).mean()
MeanE(fn, output, target) ==
    [op |-> "mean", fn |-> fn.name, output |-> output, target |-> target]

SubE(a, b) == [op |-> "sub", l |-> a, r |-> b]

\* w * e, where e is a Theano expression or None
MulE(w, e) == [op |-> "mul", w |-> w, e |-> e]

AddE(a, b) == [op |-> "add", l |-> a, r |-> b]

Ok(v) == [exc |-> None, val |-> v]

Raise(e) == [exc |-> e, val |-> NoneE]

-----------------------------------------------------------------------------
(* The layer graph the caller built with lasagne: an input layer I0, a     *)
(* layer A on it, a layer B stacked on A, and a layer C on I0.             *)

Layers == {"I0", "A", "B", "C"}

\* layer.input_layer (an InputLayer has none)
InputLayerOf == [I0 |-> Absent, A |-> "I0", B |-> "A", C |-> "I0"]

\* layer.input_var of an InputLayer
InputVarOf == [I0 |-> "x", A |-> Absent, B |-> Absent, C |-> Absent]

\* the keys of layer.params, in insertion order
LayerParams ==
    [I0 |-> <<>>, A |-> <<"A.W", "A.b">>, B |-> <<"B.W">>, C |-> <<"C.W", "C.b">>]

Roles == {"phi", "psi", "beta"}

TagNames == Roles \cup {"trainable", "regularizable"}

Range(s) == {s[i] : i \in 1..Len(s)}

\* the tags lasagne's add_param gives a weight and a bias
InitTags ==
    [l \in Layers |->
        [p \in Range(LayerParams[l]) |->
            IF p \in {"A.b", "C.b"} THEN {"trainable"}
            ELSE {"trainable", "regularizable"}]]

\* lasagne.layers.get_all_layers(layer): the layers feeding into layer, then layer
RECURSIVE get_all_layers(_)
get_all_layers(layer) ==
    IF layer \in {None, Absent} THEN <<>>
    ELSE get_all_layers(InputLayerOf[layer]) \o <<layer>>

\* does a parameter with tag set s pass the keyword filter f (tag -> BOOLEAN)
Matches(s, f) ==
    /\ {t \in DOMAIN f : f[t]} \subseteq s
    /\ {t \in DOMAIN f : ~f[t]} \cap s = {}

\* lasagne's Layer.get_params(**f)
LayerGetParams(tg, l, f) ==
    SelectSeq(LayerParams[l], LAMBDA p : Matches(tg[l][p], f))

\* layer.get_output_for(input)
GetOutputFor(l, input) == [op |-> "out", layer |-> l, in |-> input]

\* utils.isfunction
isfunction(v) == v.op = "fn"

-----------------------------------------------------------------------------
(* Pattern (base.py) *)

\* a new object of class cls, before any __init__ has assigned an attribute
NewObject(cls) ==
    [cls |-> cls, phi |-> Absent, psi |-> Absent, beta |-> Absent,
     input_layer |-> Absent, input_var |-> Absent,
     target_var |-> Absent, context_var |-> Absent,
     target_loss |-> [op |-> "absent"], target_loss_fn |-> [op |-> "absent"],
     context_loss |-> [op |-> "absent"], context_loss_fn |-> [op |-> "absent"],
     context_input_layer |-> [op |-> "absent"],
     context_transform_var |-> Absent, context_shape |-> Absent,
     constructed |-> FALSE]

\* _tag_function_parameters without the skip of parameters already tagged "phi"
NoSkipTagFunctionParameters(tg, fun, fun_name) ==
    LET ls == Range(get_all_layers(fun))
    IN  [l \in Layers |-> [p \in Range(LayerParams[l]) |->
            IF l \in ls THEN tg[l][p] \cup {fun_name} ELSE tg[l][p]]]

\* _tag_function_parameters with the skip applied under the role "psi" only
PsiOnlySkipTagFunctionParameters(tg, fun, fun_name) ==
    LET ls == Range(get_all_layers(fun))
    IN  [l \in Layers |-> [p \in Range(LayerParams[l]) |->
            IF l \in ls /\ ~(fun_name = "psi" /\ "phi" \in tg[l][p])
            THEN tg[l][p] \cup {fun_name} ELSE tg[l][p]]]

\* Pattern._tag_function_parameters(fun, fun_name), on the tag sets tg
_tag_function_parameters(tg, fun, fun_name) ==
    LET ls == Range(get_all_layers(fun))
    IN  [l \in Layers |-> [p \in Range(LayerParams[l]) |->
            IF l \in ls /\ ~(fun_name # "phi" /\ "phi" \in tg[l][p])
            THEN tg[l][p] \cup {fun_name} ELSE tg[l][p]]]

\* the loop of Pattern.__init__ over zip([phi, psi, beta], ['phi', 'psi', 'beta'])
TagAll(tg, phi, psi, beta) ==
    _tag_function_parameters(
        _tag_function_parameters(
            _tag_function_parameters(tg, phi, "phi"), psi, "psi"), beta, "beta")

\* the loss slots, had __init__ not cleared the expression slot of a callable
KeepCallableLossSlots(self, target_loss, context_loss) ==
    [self EXCEPT
        !.target_loss = target_loss,
        !.target_loss_fn = IF isfunction(target_loss) THEN target_loss ELSE NoneE,
        !.context_loss = context_loss,
        !.context_loss_fn = IF isfunction(context_loss) THEN context_loss ELSE NoneE]

\* the loss slots after Pattern.__init__ has sorted a ready expression from a callable
LossSlots(self, target_loss, context_loss) ==
    [self EXCEPT
        !.target_loss = IF isfunction(target_loss) THEN NoneE ELSE target_loss,
        !.target_loss_fn = IF isfunction(target_loss) THEN target_loss ELSE NoneE,
        !.context_loss = IF isfunction(context_loss) THEN NoneE ELSE context_loss,
        !.context_loss_fn = IF isfunction(context_loss) THEN context_loss ELSE NoneE]

\* Pattern.__init__ on the object self: the object and the tag sets afterwards
PatternInit(self, tg, a) ==
    LET s1 == [self EXCEPT
                !.phi = a.phi, !.psi = a.psi, !.beta = a.beta,
                !.input_layer = InputLayerOf[a.phi],
                !.input_var = InputVarOf[InputLayerOf[a.phi]],
                !.target_var = a.target_var, !.context_var = a.context_var]
    IN  [self |-> LossSlots(s1, a.target_loss, a.context_loss),
         tags |-> TagAll(tg, a.phi, a.psi, a.beta)]

\* Pattern.default_target_objective and its override in PairwiseTransformationPattern
default_target_objective(self) ==
    IF self.cls = "Pattern" THEN Raise("TypeError")
    ELSE Ok(FnE("categorical_crossentropy"))

\* Pattern.default_context_objective and its override
default_context_objective(self) ==
    IF self.cls = "Pattern" THEN Raise("TypeError")
    ELSE Ok(FnE("squared_error"))

get_psi_output_for(self, input) ==
    GetOutputFor(self.psi, GetOutputFor(self.phi, input))

\* _create_target_objective without the test that target_loss is still None
RebuildCreateTargetObjective(self, output, target, inv) ==
    LET out == IF output = NoneE
               THEN get_psi_output_for(self, VarE(self.input_var)) ELSE output
        tgt == IF target = None THEN self.target_var ELSE target
        fn  == IF self.target_loss_fn = NoneE
               THEN default_target_objective(self) ELSE Ok(self.target_loss_fn)
    IN  IF self.input_var = None \/ self.target_var = None
        THEN [self |-> self, exc |-> "AssertionError", invoked |-> inv]
        ELSE IF fn.exc # None
        THEN [self |-> self, exc |-> fn.exc, invoked |-> inv]
        ELSE [self |-> [self EXCEPT !.target_loss = MeanE(fn.val, out, tgt)],
              exc |-> None, invoked |-> inv \cup {fn.val.name}]

\* _create_target_objective without its two assertions
NoAssertCreateTargetObjective(self, output, target, inv) ==
    LET out == IF output = NoneE
               THEN get_psi_output_for(self, VarE(self.input_var)) ELSE output
        tgt == IF target = None THEN self.target_var ELSE target
        fn  == IF self.target_loss_fn = NoneE
               THEN default_target_objective(self) ELSE Ok(self.target_loss_fn)
    IN  IF self.target_loss # NoneE
        THEN [self |-> self, exc |-> None, invoked |-> inv]
        ELSE IF fn.exc # None
        THEN [self |-> self, exc |-> fn.exc, invoked |-> inv]
        ELSE [self |-> [self EXCEPT !.target_loss = MeanE(fn.val, out, tgt)],
              exc |-> None, invoked |-> inv \cup {fn.val.name}]

\* Pattern._create_target_objective(output, target): [self, exc, invoked] afterwards
_create_target_objective(self, output, target, inv) ==
    LET out == IF output = NoneE
               THEN get_psi_output_for(self, VarE(self.input_var)) ELSE output
        tgt == IF target = None THEN self.target_var ELSE target
        fn  == IF self.target_loss_fn = NoneE
               THEN default_target_objective(self) ELSE Ok(self.target_loss_fn)
    IN  IF self.target_loss # NoneE
        THEN [self |-> self, exc |-> None, invoked |-> inv]
        ELSE IF self.input_var = None \/ self.target_var = None
        THEN [self |-> self, exc |-> "AssertionError", invoked |-> inv]
        ELSE IF fn.exc # None
        THEN [self |-> self, exc |-> fn.exc, invoked |-> inv]
        ELSE [self |-> [self EXCEPT !.target_loss = MeanE(fn.val, out, tgt)],
              exc |-> None, invoked |-> inv \cup {fn.val.name}]

\* get_params with phi's parameters first and psi's last
PhiFirstGetParams(self, tg, f) ==
    LayerGetParams(tg, self.phi, f)
        \o (IF self.beta # None THEN LayerGetParams(tg, self.beta, f) ELSE <<>>)
        \o LayerGetParams(tg, self.psi, f)

\* Pattern.get_params(**f)
get_params(self, tg, f) ==
    LayerGetParams(tg, self.psi, f)
        \o (IF self.beta # None THEN LayerGetParams(tg, self.beta, f) ELSE <<>>)
        \o LayerGetParams(tg, self.phi, f)

\* weight * loss in Python: a TypeError when the loss is None
Times(w, e) == IF e = NoneE THEN Raise("TypeError") ELSE Ok(MulE(w, e))

\* training_loss without the two branches for a zero weight
FullSumTrainingLoss(self, target_weight, context_weight) ==
    LET t == Times(target_weight, self.target_loss)
        c == Times(context_weight, self.context_loss)
    IN  IF t.exc # None THEN t
        ELSE IF c.exc # None THEN c
        ELSE Ok(AddE(t.val, c.val))

\* training_loss with the two weights exchanged
SwappedTrainingLoss(self, target_weight, context_weight) ==
    LET t == Times(context_weight, self.target_loss)
        c == Times(target_weight, self.context_loss)
    IN  IF target_weight = 0 THEN c
        ELSE IF context_weight = 0 THEN t
        ELSE IF t.exc # None THEN t
        ELSE IF c.exc # None THEN c
        ELSE Ok(AddE(t.val, c.val))

\* Pattern.training_loss(target_weight, context_weight)
training_loss(self, target_weight, context_weight) ==
    LET t == Times(target_weight, self.target_loss)
        c == Times(context_weight, self.context_loss)
    IN  IF target_weight = 0 THEN c
        ELSE IF context_weight = 0 THEN t
        ELSE IF t.exc # None THEN t
        ELSE IF c.exc # None THEN c
        ELSE Ok(AddE(t.val, c.val))

-----------------------------------------------------------------------------
(* PairwiseTransformationPattern, PairwisePredictTransformationPattern     *)
(* (pairwise.py)                                                           *)

\* get_beta_output_for(input_i, input_j), abstract but in the leaf class
get_beta_output_for(self, input_i, input_j) ==
    IF self.cls # "PairwisePredictTransformationPattern"
    THEN Raise("NotImplementedError")
    ELSE LET diff == SubE(GetOutputFor(self.phi, input_i),
                          GetOutputFor(self.phi, input_j))
         IN  IF self.beta # None THEN Ok(GetOutputFor(self.beta, diff))
             ELSE Ok(diff)

\* PairwiseTransformationPattern._create_context_objective()
_create_context_objective(self, inv) ==
    LET fn == IF self.context_loss_fn = NoneE
              THEN default_context_objective(self) ELSE Ok(self.context_loss_fn)
        b  == get_beta_output_for(self, VarE(self.input_var), VarE(self.context_var))
    IN  IF self.context_loss # NoneE
        THEN [self |-> self, exc |-> None, invoked |-> inv]
        ELSE IF self.input_var = None \/ self.context_var = None
        THEN [self |-> self, exc |-> "AssertionError", invoked |-> inv]
        ELSE IF fn.exc # None
        THEN [self |-> self, exc |-> fn.exc, invoked |-> inv]
        ELSE IF b.exc # None
        THEN [self |-> self, exc |-> b.exc, invoked |-> inv]
        ELSE [self |-> [self EXCEPT !.context_loss =
                            MeanE(fn.val, b.val, self.context_transform_var)],
              exc |-> None, invoked |-> inv \cup {fn.val.name}]

\* PairwiseTransformationPattern.__init__ with its assertion after the two losses
LateAssertPairwiseInit(cls, tg, a) ==
    LET b  == PatternInit(
                  [NewObject(cls) EXCEPT !.context_input_layer = NoneE], tg, a)
        s  == [b.self EXCEPT !.context_transform_var = a.context_transform_var]
        t  == _create_target_objective(s, NoneE, None, {})
        c  == _create_context_objective(t.self, t.invoked)
    IN  IF t.exc # None
        THEN [self |-> t.self, tags |-> b.tags, exc |-> t.exc, invoked |-> t.invoked]
        ELSE IF c.exc # None
        THEN [self |-> c.self, tags |-> b.tags, exc |-> c.exc, invoked |-> c.invoked]
        ELSE IF s.context_transform_var = None
        THEN [self |-> c.self, tags |-> b.tags, exc |-> "AssertionError",
              invoked |-> c.invoked]
        ELSE [self |-> [c.self EXCEPT !.constructed = TRUE], tags |-> b.tags,
              exc |-> None, invoked |-> c.invoked]

\* PairwiseTransformationPattern.__init__: [self, tags, exc, invoked] afterwards
PairwiseInit(cls, tg, a) ==
    LET b  == PatternInit(
                  [NewObject(cls) EXCEPT !.context_input_layer = NoneE], tg, a)
        s  == [b.self EXCEPT !.context_transform_var = a.context_transform_var]
        t  == _create_target_objective(s, NoneE, None, {})
        c  == _create_context_objective(t.self, t.invoked)
    IN  IF s.context_transform_var = None
        THEN [self |-> s, tags |-> b.tags, exc |-> "AssertionError", invoked |-> {}]
        ELSE IF t.exc # None
        THEN [self |-> t.self, tags |-> b.tags, exc |-> t.exc, invoked |-> t.invoked]
        ELSE IF c.exc # None
        THEN [self |-> c.self, tags |-> b.tags, exc |-> c.exc, invoked |-> c.invoked]
        ELSE [self |-> [c.self EXCEPT !.constructed = TRUE], tags |-> b.tags,
              exc |-> None, invoked |-> c.invoked]

\* PairwisePredictTransformationPattern.default_beta_input: [self, ret] afterwards
default_beta_input(self) ==
    IF self.context_input_layer = NoneE
    THEN IF self.context_shape = Absent
         THEN [self |-> self, ret |-> Raise("AttributeError")]
         ELSE LET layer == [op |-> "InputLayer",
                            shape |-> <<None, self.context_shape>>,
                            input_var |-> self.context_var]
              IN  [self |-> [self EXCEPT !.context_input_layer = layer],
                   ret |-> Ok(layer)]
    ELSE [self |-> self, ret |-> Ok(self.context_input_layer)]

-----------------------------------------------------------------------------
(* The calls a caller makes *)

NoPattern == NewObject(None)

\* a layer phi may be: Pattern.__init__ reads phi.input_layer.input_var
PhiLayers ==
    {l \in Layers : InputLayerOf[l] # Absent /\ InputVarOf[InputLayerOf[l]] # Absent}

PairwiseClasses ==
    {"PairwiseTransformationPattern", "PairwisePredictTransformationPattern"}

\* what a caller passes as target_loss or context_loss
TargetLossArgs == {NoneE, GivenE("Lt"), FnE("f")}

ContextLossArgs == {NoneE, GivenE("Lc"), FnE("g")}

Weights == 0..MaxWeight

\* the keyword filters of get_params (tag -> BOOLEAN): none, each single tag, and
\* one pair of tags
Filters ==
    UNION {[d -> BOOLEAN] :
            d \in {{}} \cup {{t} : t \in TagNames} \cup {{"psi", "regularizable"}}}

Args(phi, psi, beta, tv, cv, ctv, tl, cl) ==
    [phi |-> phi, psi |-> psi, beta |-> beta, target_var |-> tv, context_var |-> cv,
     context_transform_var |-> ctv, target_loss |-> tl, context_loss |-> cl]

Constructed == pattern.constructed

\* Pattern(phi, psi, beta, target_var, context_var, target_loss, context_loss)
NewPattern(a) ==
    LET r == PatternInit(NewObject("Pattern"), tags, a)
    IN  /\ pattern' = [r.self EXCEPT !.constructed = TRUE]
        /\ tags' = r.tags
        /\ call' = [op |-> "Pattern", args |-> a]
        /\ ret' = Ok(NoneE)
        /\ invoked' = {}

\* cls(context_transform_var, phi, psi, ...) for a pairwise class cls
NewPairwise(cls, a) ==
    LET r == PairwiseInit(cls, tags, a)
    IN  /\ pattern' = r.self
        /\ tags' = r.tags
        /\ call' = [op |-> cls, args |-> a]
        /\ ret' = IF r.exc = None THEN Ok(NoneE) ELSE Raise(r.exc)
        /\ invoked' = r.invoked

\* pattern._create_target_objective(output, target)
CreateTargetObjective(output, target) ==
    /\ Constructed
    /\ LET r == _create_target_objective(pattern, output, target, invoked)
       IN  /\ pattern' = r.self
           /\ ret' = IF r.exc = None THEN Ok(NoneE) ELSE Raise(r.exc)
           /\ invoked' = r.invoked
    /\ call' = [op |-> "_create_target_objective",
                args |-> [output |-> output, target |-> target]]
    /\ UNCHANGED tags

\* pattern._create_context_objective()
CreateContextObjective ==
    /\ Constructed
    /\ pattern.cls \in PairwiseClasses
    /\ LET r == _create_context_objective(pattern, invoked)
       IN  /\ pattern' = r.self
           /\ ret' = IF r.exc = None THEN Ok(NoneE) ELSE Raise(r.exc)
           /\ invoked' = r.invoked
    /\ call' = [op |-> "_create_context_objective", args |-> <<>>]
    /\ UNCHANGED tags

\* pattern.get_params(**f)
GetParams(f) ==
    /\ Constructed
    /\ ret' = Ok(get_params(pattern, tags, f))
    /\ call' = [op |-> "get_params", args |-> f]
    /\ UNCHANGED <<tags, pattern, invoked>>

\* pattern.training_loss(tw, cw)
TrainingLoss(tw, cw) ==
    /\ Constructed
    /\ ret' = training_loss(pattern, tw, cw)
    /\ call' = [op |-> "training_loss",
                args |-> [target_weight |-> tw, context_weight |-> cw]]
    /\ UNCHANGED <<tags, pattern, invoked>>

\* pattern.default_beta_input
DefaultBetaInput ==
    /\ Constructed
    /\ pattern.cls = "PairwisePredictTransformationPattern"
    /\ LET r == default_beta_input(pattern)
       IN  /\ pattern' = r.self
           /\ ret' = r.ret
    /\ call' = [op |-> "default_beta_input", args |-> <<>>]
    /\ UNCHANGED <<tags, invoked>>

-----------------------------------------------------------------------------
(* Spec: one network (phi = A, psi = B on A, no beta), every               *)
(* choice of variables and losses, and the calls that build and combine    *)
(* the losses.                                                             *)

Vars(v) == {None, v}

LossArgs ==
    {Args("A", "B", None, tv, cv, ctv, tl, cl) :
        tv \in Vars("y"), cv \in Vars("c"), ctv \in Vars("t"),
        tl \in TargetLossArgs, cl \in ContextLossArgs}

Init ==
    /\ tags = InitTags
    /\ pattern = NoPattern
    /\ call = [op |-> "none", args |-> <<>>]
    /\ ret = Ok(NoneE)
    /\ invoked = {}

Next ==
    \/ \E a \in {x \in LossArgs : x.context_transform_var = None} : NewPattern(a)
    \/ \E cls \in PairwiseClasses, a \in LossArgs : NewPairwise(cls, a)
    \/ \E output \in {NoneE, GivenE("o")}, target \in Vars("y2") :
            CreateTargetObjective(output, target)
    \/ CreateContextObjective
    \/ \E tw \in Weights, cw \in Weights : TrainingLoss(tw, cw)
    \/ DefaultBetaInput

Spec == Init /\ [][Next]_vars

-----------------------------------------------------------------------------
(* SpecTags: every choice of networks from the layer pool, patterns built  *)
(* one after the other over the same layers, and get_params.               *)

TagArgs ==
    {Args(phi, psi, beta, "y", "c", "t", NoneE, NoneE) :
        phi \in PhiLayers, psi \in Layers \ {"I0"},
        beta \in {None, "B", "C"}}

NextT ==
    \/ \E a \in TagArgs : NewPattern([a EXCEPT !.context_transform_var = None])
    \/ \E a \in TagArgs : NewPairwise("PairwisePredictTransformationPattern", a)
    \/ \E f \in Filters : GetParams(f)

SpecTags == Init /\ [][NextT]_vars

-----------------------------------------------------------------------------
(* Properties *)

ConstructOps == {"Pattern"} \cup PairwiseClasses

LayerSet(fun) == Range(get_all_layers(fun))

ParamsOf(l) == Range(LayerParams[l])

RolesOf(tg, l, p) == tg[l][p] \cap Roles

\* the layers of the networks a constructor call was given
GraphOf(a) == LayerSet(a.phi) \cup LayerSet(a.psi) \cup LayerSet(a.beta)

NoRoleTags(tg, a) ==
    \A l \in GraphOf(a) : \A p \in ParamsOf(l) : RolesOf(tg, l, p) = {}

TaggedByRole(tg, a) ==
    \A l \in Layers : \A p \in ParamsOf(l) :
        /\ l \in LayerSet(a.phi) \cap (LayerSet(a.psi) \cup LayerSet(a.beta))
                => RolesOf(tg, l, p) = {"phi"}
        /\ l \in LayerSet(a.phi) => "phi" \in tg[l][p]
        /\ l \in LayerSet(a.psi) \ LayerSet(a.phi) => "psi" \in tg[l][p]
        /\ l \in LayerSet(a.beta) \ LayerSet(a.phi) => "beta" \in tg[l][p]
        /\ l \in LayerSet(a.psi) \ (LayerSet(a.phi) \cup LayerSet(a.beta))
                => RolesOf(tg, l, p) = {"psi"}
        /\ l \in LayerSet(a.beta) \ (LayerSet(a.phi) \cup LayerSet(a.psi))
                => RolesOf(tg, l, p) = {"beta"}

\* C1: a constructor call on networks whose parameters carry no role tag leaves
\* every parameter of a layer of phi's graph that is also in psi's or beta's graph
\* tagged "phi" and neither "psi" nor "beta", every parameter of a layer of psi's
\* graph outside phi's tagged "psi", and likewise for beta.
C1_PhiTagExclusive ==
    [][(call'.op \in ConstructOps /\ NoRoleTags(tags, call'.args))
            => TaggedByRole(tags', call'.args)]_vars

\* C1: a first pattern built with psi = B stacked on phi = A and no beta
C1_Witness ==
    /\ call.op \in ConstructOps
    /\ call.args.phi = "A" /\ call.args.psi = "B" /\ call.args.beta = None
    /\ \A p \in ParamsOf("A") : RolesOf(tags, "A", p) = {"phi"}
    /\ \A p \in ParamsOf("B") : RolesOf(tags, "B", p) = {"psi"}
    /\ \A p \in ParamsOf("C") : RolesOf(tags, "C", p) = {}

\* the layer whose params dictionary holds p
Owner(p) == CHOOSE l \in Layers : p \in ParamsOf(l)

\* psi's parameters, then beta's if there is a beta, then phi's, unfiltered
RoleOrder(self) ==
    LayerParams[self.psi]
        \o (IF self.beta = None THEN <<>> ELSE LayerParams[self.beta])
        \o LayerParams[self.phi]

\* C2: get_params(**f) returns psi's, then beta's (if present), then phi's
\* parameters, keeping exactly those that match f: with {t: True} those whose tag
\* set contains t, with {t: False} those whose tag set does not, with no filter all.
C2_GetParamsOrder ==
    call.op = "get_params" =>
        LET f   == call.args
            all == RoleOrder(pattern)
        IN  /\ ret.exc = None
            /\ ret.val = SelectSeq(all, LAMBDA p : Matches(tags[Owner(p)][p], f))
            /\ f = <<>> => ret.val = all
            /\ \A t \in TagNames :
                /\ DOMAIN f = {t} /\ f[t]
                    => ret.val = SelectSeq(all, LAMBDA p : t \in tags[Owner(p)][p])
                /\ DOMAIN f = {t} /\ ~f[t]
                    => ret.val = SelectSeq(all, LAMBDA p : t \notin tags[Owner(p)][p])

\* C2: get_params(phi=False) on a pattern with psi = B, beta = C and phi = A
C2_Witness ==
    /\ call.op = "get_params"
    /\ DOMAIN call.args = {"phi"} /\ ~call.args["phi"]
    /\ pattern.phi = "A" /\ pattern.psi = "B" /\ pattern.beta = "C"
    /\ ret.val = <<"B.W", "C.W", "C.b">>

\* the value of a loss expression, of w * loss, and of a sum of two such, when the
\* target loss evaluates to vt and the context loss to vc
LeafVal(e, vt, vc) == IF e = pattern.target_loss THEN vt ELSE vc

MulVal(e, vt, vc) == e.w * LeafVal(e.e, vt, vc)

Eval(e, vt, vc) ==
    IF e.op = "add" THEN MulVal(e.l, vt, vc) + MulVal(e.r, vt, vc)
    ELSE MulVal(e, vt, vc)

LossVals == 1..MaxLossVal

\* the losses training_loss(tw, cw) multiplies are there
LossesUsedExist(tw, cw) ==
    /\ (tw = 0 \/ cw # 0) => pattern.context_loss # NoneE
    /\ tw # 0 => pattern.target_loss # NoneE

\* C3: training_loss(tw, cw) is cw*context_loss when tw = 0, tw*target_loss when
\* cw = 0 and tw # 0, and tw*target_loss + cw*context_loss otherwise; its value is
\* tw*vt + cw*vc, not renormalized, so training_loss(1, 0) has the value of
\* target_loss and training_loss(0, 1) that of context_loss.
C3_TrainingLoss ==
    (call.op = "training_loss"
        /\ LossesUsedExist(call.args.target_weight, call.args.context_weight)) =>
        LET tw == call.args.target_weight
            cw == call.args.context_weight
        IN  /\ ret.exc = None
            /\ tw = 0 => ret.val = MulE(cw, pattern.context_loss)
            /\ tw # 0 /\ cw = 0 => ret.val = MulE(tw, pattern.target_loss)
            /\ tw # 0 /\ cw # 0 =>
                    ret.val = AddE(MulE(tw, pattern.target_loss),
                                   MulE(cw, pattern.context_loss))
            /\ \A vt \in LossVals, vc \in LossVals :
                    /\ Eval(ret.val, vt, vc) = tw * vt + cw * vc
                    /\ tw = 1 /\ cw = 0 => Eval(ret.val, vt, vc) = vt
                    /\ tw = 0 /\ cw = 1 => Eval(ret.val, vt, vc) = vc

\* C3: training_loss(2, 1) on a pattern that has both losses
C3_Witness ==
    /\ call.op = "training_loss"
    /\ call.args.target_weight = 2 /\ call.args.context_weight = 1
    /\ pattern.target_loss # NoneE /\ pattern.context_loss # NoneE
    /\ ret.exc = None /\ ret.val.op = "add"

\* C4 as stated: training_loss(tw, cw) succeeds whenever each loss whose weight is
\* not zero exists, both weights being zero included.
C4_ZeroWeightLossMayBeAbsent ==
    (call.op = "training_loss"
        /\ (call.args.target_weight # 0 => pattern.target_loss # NoneE)
        /\ (call.args.context_weight # 0 => pattern.context_loss # NoneE))
    => ret.exc = None

\* C4 amended: training_loss(tw, cw) succeeds without a target_loss when tw = 0 and
\* without a context_loss when cw = 0 and tw # 0; with tw = 0 it multiplies
\* context_loss even when cw = 0 too, and fails with a TypeError if that is None.
C4_LossNeededUnlessSkipped ==
    call.op = "training_loss" =>
        LET tw == call.args.target_weight
            cw == call.args.context_weight
        IN  /\ LossesUsedExist(tw, cw) => ret.exc = None
            /\ ~LossesUsedExist(tw, cw) => ret.exc = "TypeError"

\* C4: training_loss(0, 1) succeeds on a pattern that has no target_loss
C4_Witness ==
    /\ call.op = "training_loss"
    /\ call.args.target_weight = 0 /\ call.args.context_weight = 1
    /\ pattern.target_loss = NoneE
    /\ ret.exc = None

NonNull(e) == e # NoneE

\* C5 as stated: after a construction that succeeded, exactly one of target_loss
\* and target_loss_fn is non-null.
C5_ExactlyOneTargetSlot ==
    (call.op \in ConstructOps /\ ret.exc = None) =>
        (NonNull(pattern.target_loss) /\ ~NonNull(pattern.target_loss_fn))
            \/ (~NonNull(pattern.target_loss) /\ NonNull(pattern.target_loss_fn))

\* C5 amended: after construction of a base Pattern at most one of the two slots is
\* non-null: target_loss when a ready expression was given, target_loss_fn when a
\* callable was given, neither when no target_loss was given.  After the successful
\* construction of a pairwise pattern target_loss is non-null, and target_loss_fn
\* is non-null as well exactly when a callable was given.
C5_TargetSlotsAfterConstruction ==
    (call.op \in ConstructOps /\ ret.exc = None) =>
        LET given == call.args.target_loss
        IN  /\ NonNull(pattern.target_loss_fn) <=> isfunction(given)
            /\ isfunction(given) => pattern.target_loss_fn = given
            /\ call.op = "Pattern" =>
                /\ ~(NonNull(pattern.target_loss) /\ NonNull(pattern.target_loss_fn))
                /\ NonNull(pattern.target_loss) <=> given.op = "given"
            /\ call.op \in PairwiseClasses => NonNull(pattern.target_loss)

\* C5: a base Pattern just built with a callable target_loss
C5_Witness ==
    /\ call.op = "Pattern"
    /\ call.args.target_loss = FnE("f")
    /\ pattern.target_loss = NoneE
    /\ pattern.target_loss_fn = FnE("f")

\* the constructor of a base Pattern was given a callable target_loss
BuiltWithCallable ==
    /\ Constructed
    /\ pattern.cls = "Pattern"
    /\ NonNull(pattern.target_loss_fn)

\* what _create_target_objective(output, target) is to build from the callable
ExpectedTargetLoss(self, a) ==
    [op |-> "mean", fn |-> self.target_loss_fn.name,
     output |-> IF a.output = NoneE
                THEN GetOutputFor(self.psi, GetOutputFor(self.phi, VarE(self.input_var)))
                ELSE a.output,
     target |-> IF a.target = None THEN self.target_var ELSE a.target]

\* a base Pattern built with a callable has target_loss null and the callable in
\* target_loss_fn
CallableDeferred ==
    (call.op = "Pattern" /\ isfunction(call.args.target_loss)) =>
        /\ pattern.target_loss = NoneE
        /\ pattern.target_loss_fn = call.args.target_loss

\* a call that finds target_loss non-null leaves it as it is
BuiltOnce ==
    (BuiltWithCallable /\ call'.op = "_create_target_objective"
        /\ NonNull(pattern.target_loss))
    => pattern'.target_loss = pattern.target_loss

SlotFor(given) == IF isfunction(given) THEN NoneE ELSE given

\* C7: constructing a pairwise pattern without context_transform_var fails with an
\* AssertionError before either loss is built: target_loss and context_loss hold
\* what the caller passed and no loss callable has been invoked.
C7_AssertBeforeLosses ==
    (call.op \in PairwiseClasses /\ call.args.context_transform_var = None) =>
        /\ ret.exc = "AssertionError"
        /\ ~pattern.constructed
        /\ pattern.target_loss = SlotFor(call.args.target_loss)
        /\ pattern.context_loss = SlotFor(call.args.context_loss)
        /\ invoked = {}

\* C7: the failed construction of a pairwise pattern whose losses were both to be
\* built from the default objectives
C7_Witness ==
    /\ call.op = "PairwisePredictTransformationPattern"
    /\ call.args.context_transform_var = None
    /\ call.args.target_var = "y" /\ call.args.context_var = "c"
    /\ call.args.target_loss = NoneE /\ call.args.context_loss = NoneE
    /\ ret.exc = "AssertionError"

\* C8: _create_target_objective, when target_loss is null and target_var absent,
\* fails with an AssertionError, invokes no objective and leaves target_loss null;
\* when target_loss is non-null it is a no-op that does not fail, whatever
\* target_var is.  The same holds of the call the pairwise constructor makes.
C8_TargetVarRequired ==
    /\ [][call'.op = "_create_target_objective" =>
            /\ (pattern.target_loss = NoneE /\ pattern.target_var = None) =>
                    /\ ret'.exc = "AssertionError"
                    /\ pattern'.target_loss = NoneE
                    /\ invoked' = invoked
            /\ NonNull(pattern.target_loss) =>
                    /\ ret'.exc = None
                    /\ pattern' = pattern
                    /\ invoked' = invoked]_vars
    /\ []((call.op \in PairwiseClasses /\ call.args.context_transform_var # None
            /\ call.args.target_var = None) =>
            IF call.args.target_loss.op = "given"
            THEN pattern.target_loss = call.args.target_loss
            ELSE /\ ret.exc = "AssertionError"
                 /\ pattern.target_loss = NoneE
                 /\ invoked = {})

\* C8: a failed call on a pattern with a callable but no target_var
C8_Witness ==
    /\ call.op = "_create_target_objective"
    /\ pattern.target_var = None
    /\ pattern.target_loss = NoneE
    /\ NonNull(pattern.target_loss_fn)
    /\ ret.exc = "AssertionError"

\* C9: default_beta_input returns the input layer held in context_input_layer,
\* which the first access builds.
C9_DefaultBetaInputCached ==
    call.op = "default_beta_input" =>
        /\ ret.exc = None
        /\ ret.val.op = "InputLayer"
        /\ ret.val = pattern.context_input_layer

\* C10: once a parameter carries "phi", no construction adds "psi" or "beta" to
\* its tag set.
C10_PhiTagSticks ==
    [][\A l \in Layers : \A p \in ParamsOf(l) :
            "phi" \in tags[l][p] =>
                tags'[l][p] \cap {"psi", "beta"} \subseteq tags[l][p]]_vars

\* C10: a layer tagged "phi" by an earlier pattern has served as beta of a later
\* one, outside that pattern's phi, and carries "phi" alone
C10_Witness ==
    /\ call.op \in ConstructOps
    /\ call.args.beta # None
    /\ \E l \in LayerSet(call.args.beta) \ LayerSet(call.args.phi) :
            /\ ParamsOf(l) # {}
            /\ \A p \in ParamsOf(l) : RolesOf(tags, l, p) = {"phi"}

====
